---- MODULE Spec2Model ----
(***************************************************************************)
(* Model of profile_code_reuse_profile.py: one inference profile is        *)
(* provisioned, num_iterations Converse requests are issued against it     *)
(* sequentially, each outcome is classified and a summary is printed.      *)
(*                                                                         *)
(* Python values are tagged records (t = "None", "int", "str", "list",     *)
(* "dict"); a str is a sequence of one-character strings so that the       *)
(* substring meaning of `in` on a str is computed, a dict is a function    *)
(* from key names to values.  A call that can raise yields a record        *)
(* [raised, value].                                                        *)
(***************************************************************************)
EXTENDS Integers, Sequences, FiniteSets, TLC

VARIABLES
    pc,               \* position of main's control flow
    shared_model_id,  \* main's shared_model_id ("unset" before line 92 assigns it)
    i,                \* main's loop variable (0 before the loop is entered)
    successful_runs,  \* main's counter, line 94
    failed_runs,      \* main's counter, line 95
    response,         \* what converse returned and lines 103-106 have not read yet
                      \* (run_test's `response`, then main's; dead once classified)
    remote,           \* outcome of the bedrock_runtime.converse call being classified
    nRequests,        \* number of bedrock_runtime.converse requests issued (line 44)
    request,          \* the last Converse request issued
    modelIds,         \* every modelId a Converse request was issued with
    inFlight,         \* number of Converse requests issued and not yet answered
    createCalls,      \* number of bedrock.create_inference_profile calls issued (line 29)
    profiles,         \* ARNs of the profiles the provisioning calls have returned
    perCallSleeps,    \* number of time.sleep calls made by run_test (line 84)
    loopSleeps,       \* number of time.sleep calls made by main's loop (line 117)
    clock,            \* total time slept, in the unit of time.sleep's argument
    reported,         \* iterations at which a progress report was printed
    nReturned,        \* number of iterations whose remote Converse call returned
    clean,            \* every remote Converse call so far raised or returned a
                      \* well-formed response
    summaries,        \* number of times the TEST SUMMARY block was printed
    stdout            \* what the last step printed

vars == <<pc, shared_model_id, i, successful_runs, failed_runs, response, remote,
          nRequests, request, modelIds, inFlight, createCalls, profiles,
          perCallSleeps, loopSleeps, clock, reported, nReturned, clean, summaries, stdout>>

(***************************************************************************)
(* Python values                                                           *)
(***************************************************************************)
PyNone == [t |-> "None"]
PyInt(n) == [t |-> "int", v |-> n]
PyStr(s) == [t |-> "str", v |-> s]
PyList(xs) == [t |-> "list", v |-> xs]
PyDict(f) == [t |-> "dict", v |-> f]
EmptyDict == PyDict([k \in {} |-> PyNone])

\* The keys the program looks up, spelled out as Python strings.
Chars ==
    [output  |-> <<"o","u","t","p","u","t">>,
     message |-> <<"m","e","s","s","a","g","e">>,
     content |-> <<"c","o","n","t","e","n","t">>,
     text    |-> <<"t","e","x","t">>,
     image   |-> <<"i","m","a","g","e">>]

\* line 21: the value returned when no text is found
Sentinel ==
    PyStr(<<"N","o"," ","t","e","x","t"," ","r","e","s","p","o","n","s","e"," ","f","o","u","n","d">>)

Ok(x) == [raised |-> FALSE, value |-> x]
Raise(exc) == [raised |-> TRUE, value |-> exc]

IsSubstring(needle, hay) ==
    \E k \in 0..(Len(hay) - Len(needle)) : SubSeq(hay, k + 1, k + Len(needle)) = needle

\* Python's `key in c`: membership of a key for a dict, of an element for
\* a list, substring for a str, TypeError for anything else.
py_in(key, c) ==
    CASE c.t = "dict" -> Ok(key \in DOMAIN c.v)
      [] c.t = "list" -> Ok(\E k \in 1..Len(c.v) : c.v[k] = PyStr(Chars[key]))
      [] c.t = "str"  -> Ok(IsSubstring(Chars[key], c.v))
      [] OTHER        -> Raise("TypeError")

\* Python's `c[key]` with a str key.
py_getitem(c, key) ==
    IF c.t = "dict"
    THEN IF key \in DOMAIN c.v THEN Ok(c.v[key]) ELSE Raise("KeyError")
    ELSE Raise("TypeError")

RECURSIVE SetToSeq(_)
SetToSeq(S) ==
    IF S = {} THEN <<>>
    ELSE LET x == CHOOSE y \in S : TRUE IN <<x>> \o SetToSeq(S \ {x})

\* Python's iteration `for content in c`: the elements of a list, the keys
\* of a dict, the characters of a str, TypeError for anything else.
py_iter(c) ==
    CASE c.t = "list" -> Ok(c.v)
      [] c.t = "dict" -> Ok([k \in 1..Cardinality(DOMAIN c.v) |->
                                PyStr(Chars[SetToSeq(DOMAIN c.v)[k]])])
      [] c.t = "str"  -> Ok([k \in 1..Len(c.v) |-> PyStr(<<c.v[k]>>)])
      [] OTHER        -> Raise("TypeError")

\* Python's `content.get('text', '')`: only a dict has .get
py_get(c, key) ==
    IF c.t = "dict"
    THEN Ok(IF key \in DOMAIN c.v THEN c.v[key] ELSE PyStr(<<>>))
    ELSE Raise("AttributeError")

\* Python's truth value, as tested by `if response:`
Truthy(v) ==
    CASE v.t = "None" -> FALSE
      [] v.t = "int"  -> v.v # 0
      [] v.t = "dict" -> DOMAIN v.v # {}
      [] OTHER        -> Len(v.v) > 0

\* Python's `parsed[:50]`: a str or a list can be sliced
py_slice50(v) ==
    IF v.t \in {"str", "list"}
    THEN Ok([t |-> v.t, v |-> SubSeq(v.v, 1, IF Len(v.v) < 50 THEN Len(v.v) ELSE 50)])
    ELSE Raise("TypeError")

(***************************************************************************)
(* parse_converse_response, lines 13-21                                    *)
(***************************************************************************)
\* only the first element of message['content'] looked at
content_loop_FirstOnly(items, k) ==
    IF k > Len(items) THEN Ok(Sentinel)
    ELSE LET has == py_in("text", items[k]) IN
         IF has.raised THEN has
         ELSE IF has.value THEN py_get(items[k], "text")
         ELSE Ok(Sentinel)

\* lines 18-20: the loop over message['content'], from position k on
RECURSIVE content_loop(_, _)
content_loop(items, k) ==
    IF k > Len(items) THEN Ok(Sentinel)
    ELSE LET has == py_in("text", items[k]) IN
         IF has.raised THEN has
         ELSE IF has.value THEN py_get(items[k], "text")
         ELSE content_loop(items, k + 1)

parse_converse_response(resp) ==
    LET c1 == py_in("output", resp) IN
    IF c1.raised THEN c1
    ELSE IF ~c1.value THEN Ok(Sentinel)
    ELSE
    LET out == py_getitem(resp, "output") IN
    IF out.raised THEN out
    ELSE
    LET c2 == py_in("message", out.value) IN
    IF c2.raised THEN c2
    ELSE IF ~c2.value THEN Ok(Sentinel)
    ELSE
    LET message == py_getitem(out.value, "message") IN
    IF message.raised THEN message
    ELSE
    LET c3 == py_in("content", message.value) IN
    IF c3.raised THEN c3
    ELSE IF ~c3.value THEN Ok(Sentinel)
    ELSE
    LET content == py_getitem(message.value, "content") IN
    IF content.raised THEN content
    ELSE
    LET items == py_iter(content.value) IN
    IF items.raised THEN items
    ELSE content_loop(items.value, 1)

(***************************************************************************)
(* What the remote service can answer                                      *)
(***************************************************************************)
Hi == PyStr(<<"h","i">>)
Message(content) == PyDict([output |-> PyDict([message |-> PyDict([content |-> content])])])

R_text        == Message(PyList(<<PyDict([text |-> Hi])>>))
R_imageText   == Message(PyList(<<PyDict([image |-> Hi]), PyDict([text |-> Hi])>>))
R_empty       == EmptyDict
R_noMessage   == PyDict([output |-> EmptyDict])
R_noContent   == PyDict([output |-> PyDict([message |-> EmptyDict])])
R_noItems     == Message(PyList(<<>>))
R_noText      == Message(PyList(<<PyDict([image |-> Hi])>>))
R_outputStr   == PyDict([output |-> Hi])
R_outputNone  == PyDict([output |-> PyNone])
R_messageStr  == PyDict([output |-> PyDict([message |-> PyStr(Chars.content)])])
R_contentNone == Message(PyNone)
R_contentDict == Message(PyDict([text |-> Hi]))
R_itemStr     == Message(PyList(<<PyStr(Chars.text)>>))
R_textNone    == Message(PyList(<<PyDict([text |-> PyNone])>>))
R_twoTexts    == Message(PyList(<<PyDict([text |-> Hi]), PyDict([text |-> PyStr(Chars.image)])>>))
R_textIsSentinel == Message(PyList(<<PyDict([text |-> Sentinel])>>))

Responses ==
    {R_text, R_imageText, R_empty, R_noMessage, R_noContent, R_noItems, R_noText,
     R_outputStr, R_outputNone, R_messageStr, R_contentNone, R_contentDict,
     R_itemStr, R_textNone, R_twoTexts, R_textIsSentinel}

\* The shape lines 15-19 look for: response['output']['message']['content']
\* is a list of dicts.
IsDict(v) == v.t = "dict"
ExpectedNesting(resp) ==
    /\ IsDict(resp) /\ "output" \in DOMAIN resp.v
    /\ IsDict(resp.v.output) /\ "message" \in DOMAIN resp.v.output.v
    /\ IsDict(resp.v.output.v.message) /\ "content" \in DOMAIN resp.v.output.v.message.v
    /\ resp.v.output.v.message.v.content.t = "list"
    /\ \A k \in 1..Len(resp.v.output.v.message.v.content.v) :
          IsDict(resp.v.output.v.message.v.content.v[k])
ContentOf(resp) == resp.v.output.v.message.v.content.v

\* ... and some element of the content carries a 'text' field
HasTextField(resp) ==
    /\ ExpectedNesting(resp)
    /\ \E k \in 1..Len(ContentOf(resp)) : "text" \in DOMAIN ContentOf(resp)[k].v

\* ... and every 'text' field is a str
WellFormed(resp) ==
    /\ HasTextField(resp)
    /\ \A k \in 1..Len(ContentOf(resp)) :
          "text" \in DOMAIN ContentOf(resp)[k].v => ContentOf(resp)[k].v.text.t = "str"

NoOutcome == [kind |-> "none"]
Raised == [kind |-> "raised"]
Returned(r) == [kind |-> "returned", resp |-> r]
RemoteOutcomes == {Raised} \cup {Returned(r) : r \in Responses}

\* what create_inference_profile's remote call can return
Arns == {"arn:aws:bedrock:us-east-1:1:application-inference-profile/a",
         "arn:aws:bedrock:us-east-1:1:application-inference-profile/b"}
ProfileResponses == {[inferenceProfileArn |-> a] : a \in Arns} \cup {[status |-> "ACTIVE"]}

(***************************************************************************)
(* converse, lines 41-54: what it returns and prints for each outcome of   *)
(* the remote call of line 44                                              *)
(***************************************************************************)
ConverseError(exc) == [ret |-> PyNone, out |-> [kind |-> "converse_error", exc |-> exc]]

\* converse answering a failed call with an error record instead of None
converse_ReturnsErrorRecord(outcome) ==
    IF outcome.kind = "raised"
    THEN [ret |-> PyDict([image |-> Hi]), out |-> [kind |-> "converse_error", exc |-> "RemoteError"]]
    ELSE LET parsed == parse_converse_response(outcome.resp) IN
         IF parsed.raised THEN ConverseError(parsed.value)
         ELSE LET preview == py_slice50(parsed.value) IN
              IF preview.raised THEN ConverseError(preview.value)
              ELSE [ret |-> outcome.resp,
                    out |-> [kind |-> "preview", text |-> preview.value]]

converse(outcome) ==
    IF outcome.kind = "raised" THEN ConverseError("RemoteError")
    ELSE LET parsed == parse_converse_response(outcome.resp) IN
         IF parsed.raised THEN ConverseError(parsed.value)
         ELSE LET preview == py_slice50(parsed.value) IN
              IF preview.raised THEN ConverseError(preview.value)
              ELSE [ret |-> outcome.resp,
                    out |-> [kind |-> "preview", text |-> preview.value]]

(***************************************************************************)
(* run_test, lines 66-85                                                   *)
(***************************************************************************)
prompts ==
    <<"Write a comprehensive technical documentation for deploying a multi-region, highly available microservices architecture on AWS.",
      "Analyze the current state of cloud computing in enterprise environments.",
      "Compare and contrast AWS container services: ECS, EKS, App Runner, Lambda, and Fargate.",
      "Design a real-time analytics platform for IoT devices at scale.">>

\* the iteration number taken as a position counted from 1
SelectPrompt_OneBased(iteration) == prompts[((iteration - 1) % Len(prompts)) + 1]

\* line 81 (Python sequences are indexed from 0)
SelectPrompt(iteration) == prompts[(iteration % Len(prompts)) + 1]

\* line 82
Messages(iteration) == <<[role |-> "user", content |-> <<[text |-> SelectPrompt(iteration)]>>]>>

\* lines 44-48: the request converse sends
base_model_arn == "arn:aws:bedrock:us-east-1::foundation-model/amazon.nova-micro-v1:0"

\* the request sent to the base model instead of the profile
ConverseRequest_BaseModel(iteration, model_id) ==
    [iteration |-> iteration, modelId |-> base_model_arn,
     messages |-> Messages(iteration), maxTokens |-> 300]

ConverseRequest(iteration, model_id) ==
    [iteration |-> iteration, modelId |-> model_id,
     messages |-> Messages(iteration), maxTokens |-> 300]

(***************************************************************************)
(* main, lines 87-129                                                      *)
(***************************************************************************)
num_iterations == 50

Silent == [kind |-> "none"]

\* "%.1f" of num/den*100, in tenths of a percent.  2000*num/den is never an
\* odd integer for den in {5, 10, .., 50}, so no value lies halfway.
\* the rate without the factor 100
PercentTenths_Unscaled(num, den) == (20 * num + den) \div (2 * den)

PercentTenths(num, den) == (2000 * num + den) \div (2 * den)

\* line 84
PerCallDelay == 1

\* line 117
LoopDelay == 2

\* reporting on the iteration after each multiple of 5
IsProgressIteration_OffByOne(n) == (n - 1) % 5 = 0

\* line 112
IsProgressIteration(n) == n % 5 = 0

\* sleeping after the last iteration too
NeedsLoopSleep_Always(n) == n <= num_iterations

\* line 116
NeedsLoopSleep(n) == n < num_iterations

\* lines 103-106
CountsAsSuccess(r) == Truthy(r)

Init ==
    /\ pc = "main"
    /\ shared_model_id = "unset"
    /\ i = 0
    /\ successful_runs = 0
    /\ failed_runs = 0
    /\ response = PyNone
    /\ remote = NoOutcome
    /\ nRequests = 0
    /\ request = [iteration |-> 0]
    /\ modelIds = {}
    /\ inFlight = 0
    /\ createCalls = 0
    /\ profiles = {}
    /\ perCallSleeps = 0
    /\ loopSleeps = 0
    /\ clock = 0
    /\ reported = {}
    /\ nReturned = 0
    /\ clean = TRUE
    /\ summaries = 0
    /\ stdout = Silent

\* lines 89-92, 58-63: main calls create_shared_profile, which names the
\* profile and calls create_inference_profile
CreateSharedProfile ==
    /\ pc = "main"
    /\ pc' = "provision"
    /\ stdout' = [kind |-> "creating"]
    /\ UNCHANGED <<shared_model_id, i, successful_runs, failed_runs, response, remote,
                   nRequests, request, modelIds, inFlight, createCalls, profiles,
                   perCallSleeps, loopSleeps, clock, reported, nReturned, clean,
                   summaries>>

\* lines 26-27: the client has no create_inference_profile method; the
\* exception is printed (line 38), re-raised (line 39) and escapes main
CreateUnavailable ==
    /\ pc = "provision"
    /\ pc' = "failed"
    /\ stdout' = [kind |-> "create_error"]
    /\ UNCHANGED <<shared_model_id, i, successful_runs, failed_runs, response, remote,
                   nRequests, request, modelIds, inFlight, createCalls, profiles,
                   perCallSleeps, loopSleeps, clock, reported, nReturned, clean,
                   summaries>>

\* lines 26, 29-34: the provisioning request is issued
CreateCall ==
    /\ pc = "provision"
    /\ pc' = "create"
    /\ createCalls' = createCalls + 1
    /\ stdout' = Silent
    /\ UNCHANGED <<shared_model_id, i, successful_runs, failed_runs, response, remote,
                   nRequests, request, modelIds, inFlight, profiles, perCallSleeps,
                   loopSleeps, clock, reported, nReturned, clean, summaries>>

\* the provisioning error printed and not re-raised
CreateRaises_Swallowed ==
    /\ pc = "create"
    /\ pc' = "loop"
    /\ stdout' = [kind |-> "create_error"]
    /\ UNCHANGED <<shared_model_id, i, successful_runs, failed_runs, response, remote,
                   nRequests, request, modelIds, inFlight, createCalls, profiles,
                   perCallSleeps, loopSleeps, clock, reported, nReturned, clean,
                   summaries>>

\* lines 37-39: the provisioning request raises; the exception is printed,
\* re-raised and escapes main
CreateRaises ==
    /\ pc = "create"
    /\ pc' = "failed"
    /\ stdout' = [kind |-> "create_error"]
    /\ UNCHANGED <<shared_model_id, i, successful_runs, failed_runs, response, remote,
                   nRequests, request, modelIds, inFlight, createCalls, profiles,
                   perCallSleeps, loopSleeps, clock, reported, nReturned, clean,
                   summaries>>

\* lines 35-36, 64, 92-98: the provisioning request returns; line 64 raises
\* KeyError when the answer carries no ARN, and that escapes main too
CreateReturns ==
    /\ pc = "create"
    /\ \E r \in ProfileResponses :
         IF "inferenceProfileArn" \in DOMAIN r
         THEN /\ shared_model_id' = r.inferenceProfileArn
              /\ profiles' = profiles \cup {r.inferenceProfileArn}
              /\ stdout' = [kind |-> "created", arn |-> r.inferenceProfileArn]
              /\ pc' = "loop"
         ELSE /\ stdout' = [kind |-> "created", arn |-> "Unknown"]
              /\ pc' = "failed"
              /\ UNCHANGED <<shared_model_id, profiles>>
    /\ successful_runs' = 0
    /\ failed_runs' = 0
    /\ UNCHANGED <<i, response, remote, nRequests, request, modelIds, inFlight,
                   createCalls, perCallSleeps, loopSleeps, clock, reported, nReturned,
                   clean, summaries>>

\* the loop stepping by two
LoopNext_Step2 ==
    /\ pc = "loop"
    /\ i < num_iterations
    /\ i' = i + 2
    /\ pc' = "run_test"
    /\ stdout' = Silent
    /\ UNCHANGED <<shared_model_id, successful_runs, failed_runs, response, remote,
                   nRequests, request, modelIds, inFlight, createCalls, profiles,
                   perCallSleeps, loopSleeps, clock, reported, nReturned, clean,
                   summaries>>

\* line 99: the loop takes its next index
LoopNext ==
    /\ pc = "loop"
    /\ i < num_iterations
    /\ i' = i + 1
    /\ pc' = "run_test"
    /\ stdout' = Silent
    /\ UNCHANGED <<shared_model_id, successful_runs, failed_runs, response, remote,
                   nRequests, request, modelIds, inFlight, createCalls, profiles,
                   perCallSleeps, loopSleeps, clock, reported, nReturned, clean,
                   summaries>>

\* the loop's end test missing the last index
LoopExit_OffByOne ==
    /\ pc = "loop"
    /\ i > num_iterations
    /\ pc' = "summary"
    /\ stdout' = Silent
    /\ UNCHANGED <<shared_model_id, i, successful_runs, failed_runs, response, remote,
                   nRequests, request, modelIds, inFlight, createCalls, profiles,
                   perCallSleeps, loopSleeps, clock, reported, nReturned, clean,
                   summaries>>

\* the loop left one index early
LoopExit_Early ==
    /\ pc = "loop"
    /\ i >= num_iterations - 1
    /\ pc' = "summary"
    /\ stdout' = Silent
    /\ UNCHANGED <<shared_model_id, i, successful_runs, failed_runs, response, remote,
                   nRequests, request, modelIds, inFlight, createCalls, profiles,
                   perCallSleeps, loopSleeps, clock, reported, nReturned, clean,
                   summaries>>

\* line 99: range(1, num_iterations + 1) is exhausted
LoopExit ==
    /\ pc = "loop"
    /\ i >= num_iterations
    /\ pc' = "summary"
    /\ stdout' = Silent
    /\ UNCHANGED <<shared_model_id, i, successful_runs, failed_runs, response, remote,
                   nRequests, request, modelIds, inFlight, createCalls, profiles,
                   perCallSleeps, loopSleeps, clock, reported, nReturned, clean,
                   summaries>>

\* lines 101, 68-83, 44: run_test(i, shared_model_id) sends its request
SendRequest ==
    /\ pc = "run_test"
    /\ request' = ConverseRequest(i, shared_model_id)
    /\ nRequests' = nRequests + 1
    /\ modelIds' = modelIds \cup {request'.modelId}
    /\ inFlight' = inFlight + 1
    /\ pc' = "converse"
    /\ stdout' = [kind |-> "iteration", iteration |-> i]
    /\ UNCHANGED <<shared_model_id, i, successful_runs, failed_runs, response, remote,
                   createCalls, profiles, perCallSleeps, loopSleeps, clock, reported,
                   nReturned, clean, summaries>>

\* lines 44-54, 83: the remote call raises or returns; converse returns
ConverseReturns ==
    /\ pc = "converse"
    /\ \E outcome \in RemoteOutcomes :
         /\ remote' = outcome
         /\ response' = converse(outcome).ret
         /\ stdout' = converse(outcome).out
         /\ nReturned' = IF outcome.kind = "returned" THEN nReturned + 1 ELSE nReturned
         /\ clean' = (clean /\ (outcome.kind = "returned" => WellFormed(outcome.resp)))
    /\ inFlight' = inFlight - 1
    /\ pc' = "sleep1"
    /\ UNCHANGED <<shared_model_id, i, successful_runs, failed_runs, nRequests,
                   request, modelIds, createCalls, profiles, perCallSleeps, loopSleeps,
                   clock, reported, summaries>>

\* lines 84-85
PerCallSleep ==
    /\ pc = "sleep1"
    /\ perCallSleeps' = perCallSleeps + 1
    /\ clock' = clock + PerCallDelay
    /\ pc' = "classify"
    /\ stdout' = Silent
    /\ UNCHANGED <<shared_model_id, i, successful_runs, failed_runs, response, remote,
                   nRequests, request, modelIds, inFlight, createCalls, profiles,
                   loopSleeps, reported, nReturned, clean, summaries>>

\* a falsy response counted nowhere
Classify_FailureNotCounted ==
    /\ pc = "classify"
    /\ IF CountsAsSuccess(response)
       THEN /\ successful_runs' = successful_runs + 1
            /\ UNCHANGED failed_runs
       ELSE UNCHANGED <<successful_runs, failed_runs>>
    /\ response' = PyNone
    /\ remote' = NoOutcome
    /\ pc' = "progress"
    /\ stdout' = Silent
    /\ UNCHANGED <<shared_model_id, i, nRequests, request, modelIds, inFlight,
                   createCalls, profiles, perCallSleeps, loopSleeps, clock, reported,
                   nReturned, clean, summaries>>

\* a failed iteration sent again
Classify_RetryOnFailure ==
    /\ pc = "classify"
    /\ IF CountsAsSuccess(response)
       THEN /\ successful_runs' = successful_runs + 1
            /\ UNCHANGED failed_runs
       ELSE /\ failed_runs' = failed_runs + 1
            /\ UNCHANGED successful_runs
    /\ response' = PyNone
    /\ remote' = NoOutcome
    /\ pc' = IF CountsAsSuccess(response) THEN "progress" ELSE "run_test"
    /\ stdout' = Silent
    /\ UNCHANGED <<shared_model_id, i, nRequests, request, modelIds, inFlight,
                   createCalls, profiles, perCallSleeps, loopSleeps, clock, reported,
                   nReturned, clean, summaries>>

\* the failure counter incremented on every iteration
Classify_CountsBoth ==
    /\ pc = "classify"
    /\ IF CountsAsSuccess(response)
       THEN /\ successful_runs' = successful_runs + 1
            /\ failed_runs' = failed_runs + 1
       ELSE /\ failed_runs' = failed_runs + 1
            /\ UNCHANGED successful_runs
    /\ response' = PyNone
    /\ remote' = NoOutcome
    /\ pc' = "progress"
    /\ stdout' = Silent
    /\ UNCHANGED <<shared_model_id, i, nRequests, request, modelIds, inFlight,
                   createCalls, profiles, perCallSleeps, loopSleeps, clock, reported,
                   nReturned, clean, summaries>>

\* lines 103-106.  The handler of lines 108-110 is never entered: converse
\* catches every Exception of the remote call and of the parsing, and
\* nothing else in run_test raises.
Classify ==
    /\ pc = "classify"
    /\ IF CountsAsSuccess(response)
       THEN /\ successful_runs' = successful_runs + 1
            /\ UNCHANGED failed_runs
       ELSE /\ failed_runs' = failed_runs + 1
            /\ UNCHANGED successful_runs
    /\ response' = PyNone
    /\ remote' = NoOutcome
    /\ pc' = "progress"
    /\ stdout' = Silent
    /\ UNCHANGED <<shared_model_id, i, nRequests, request, modelIds, inFlight,
                   createCalls, profiles, perCallSleeps, loopSleeps, clock, reported,
                   nReturned, clean, summaries>>

\* lines 112-114
Progress ==
    /\ pc = "progress"
    /\ IF IsProgressIteration(i)
       THEN /\ stdout' = [kind |-> "progress", completed |-> i, total |-> num_iterations,
                          num |-> successful_runs, den |-> i,
                          tenths |-> PercentTenths(successful_runs, i)]
            /\ reported' = reported \cup {i}
       ELSE /\ stdout' = Silent
            /\ UNCHANGED reported
    /\ pc' = "sleep2"
    /\ UNCHANGED <<shared_model_id, i, successful_runs, failed_runs, response, remote,
                   nRequests, request, modelIds, inFlight, createCalls, profiles,
                   perCallSleeps, loopSleeps, clock, nReturned, clean, summaries>>

\* lines 116-117
LoopSleep ==
    /\ pc = "sleep2"
    /\ IF NeedsLoopSleep(i)
       THEN /\ loopSleeps' = loopSleeps + 1
            /\ clock' = clock + LoopDelay
       ELSE UNCHANGED <<loopSleeps, clock>>
    /\ pc' = "loop"
    /\ stdout' = Silent
    /\ UNCHANGED <<shared_model_id, i, successful_runs, failed_runs, response, remote,
                   nRequests, request, modelIds, inFlight, createCalls, profiles,
                   perCallSleeps, reported, nReturned, clean, summaries>>

\* lines 119-129
Summary ==
    /\ pc = "summary"
    /\ stdout' = [kind |-> "summary", total |-> num_iterations,
                  successful |-> successful_runs, failed |-> failed_runs,
                  tenths |-> PercentTenths(successful_runs, num_iterations)]
    /\ summaries' = summaries + 1
    /\ pc' = "done"
    /\ UNCHANGED <<shared_model_id, i, successful_runs, failed_runs, response, remote,
                   nRequests, request, modelIds, inFlight, createCalls, profiles,
                   perCallSleeps, loopSleeps, clock, reported, nReturned, clean>>

Next ==
    \/ CreateSharedProfile
    \/ CreateUnavailable
    \/ CreateCall
    \/ CreateRaises
    \/ CreateReturns
    \/ LoopNext
    \/ LoopExit
    \/ SendRequest
    \/ ConverseReturns
    \/ PerCallSleep
    \/ Classify
    \/ Progress
    \/ LoopSleep
    \/ Summary

Spec == Init /\ [][Next]_vars

(***************************************************************************)
(* Properties                                                              *)
(***************************************************************************)
\* iteration i has been entered and its outcome is not classified yet
InIteration == pc \in {"run_test", "converse", "sleep1", "classify"}
\* iteration i (if any) has been classified
Classified == pc \in {"progress", "sleep2", "loop", "summary", "done"}
\* t is num/den*100 to one decimal, in tenths of a percent
RateIs(t, num, den) ==
    /\ 2 * (t * den - 1000 * num) <= den
    /\ 2 * (1000 * num - t * den) <= den

\* C1: after the classification step of iteration i, successful_runs +
\* failed_runs = i (and i - 1 before it), and when the loop has ended the
\* sum is num_iterations.
C1_CountersSumToIterations ==
    /\ i <= num_iterations
    /\ (Classified => successful_runs + failed_runs = i)
    /\ (InIteration => successful_runs + failed_runs = i - 1)
    /\ (pc \in {"summary", "done"} => successful_runs + failed_runs = num_iterations)

C1_Witness == pc = "done" /\ successful_runs > 0 /\ failed_runs > 0

\* C2: a remote Converse call that raises makes converse return None, is
\* counted as exactly one failure and never aborts the loop: the run fails
\* only before the first request, and the loop ends only after all
\* num_iterations requests.
C2_FailureIsolation ==
    /\ [][(pc = "converse" /\ remote' = Raised)
            => (response' = PyNone /\ pc' = "sleep1")]_vars
    /\ [][(pc = "classify" /\ remote = Raised)
            => (/\ failed_runs' = failed_runs + 1
                /\ successful_runs' = successful_runs
                /\ pc' = "progress")]_vars
    /\ [](pc = "failed" => nRequests = 0)
    /\ [](pc \in {"summary", "done"} => nRequests = num_iterations /\ i = num_iterations)

C2_Witness == pc = "done" /\ nReturned = 0 /\ failed_runs = num_iterations

\* C3: when provisioning raises, the error escapes main: the run stops in
\* "failed" for good, with no iteration entered, no Converse request, no
\* counter incremented, no sleep, no progress report and no summary.
C3_ProvisioningFailureAborts ==
    /\ [][stdout'.kind = "create_error" => pc' = "failed"]_vars
    /\ [][pc = "failed" => pc' = "failed"]_vars
    /\ [](pc = "failed" =>
            /\ i = 0 /\ nRequests = 0 /\ successful_runs = 0 /\ failed_runs = 0
            /\ perCallSleeps = 0 /\ loopSleeps = 0 /\ clock = 0
            /\ reported = {} /\ summaries = 0)

C3_Witness == pc = "failed" /\ createCalls = 1 /\ stdout.kind = "create_error"

\* C4: parse_converse_response never raises, and returns the sentinel for
\* every response without a 'text' field in the expected place.
C4_ParseTotal ==
    remote.kind = "returned" =>
        /\ ~parse_converse_response(remote.resp).raised
        /\ (~HasTextField(remote.resp)
              => parse_converse_response(remote.resp).value = Sentinel)

\* C5: in a run whose remote calls all raised or returned a well-formed
\* response, successful_runs is the number of calls that returned,
\* failed_runs the number that raised, and the summary reports these with
\* the rate successful_runs / num_iterations * 100.
C5_CountsMatchOutcomes ==
    clean =>
        /\ (Classified => successful_runs = nReturned /\ failed_runs = i - nReturned)
        /\ (stdout.kind = "summary" =>
              /\ stdout.total = num_iterations
              /\ stdout.successful = nReturned
              /\ stdout.failed = num_iterations - nReturned
              /\ RateIs(stdout.tenths, nReturned, num_iterations))

C5_Witness == clean /\ stdout.kind = "summary" /\ stdout.failed = 1 /\ stdout.tenths = 980

\* C6: an iteration whose remote call returned a response without the
\* expected text is counted as a success.
C6_MalformedCountsAsSuccess ==
    [][(pc = "classify" /\ remote.kind = "returned" /\ ~WellFormed(remote.resp))
         => (successful_runs' = successful_runs + 1 /\ failed_runs' = failed_runs)]_vars

\* C7: the progress reports printed so far are exactly those of the
\* multiples of 5 among the iterations that got past line 112, and a
\* report is printed after the classification of its iteration with the
\* rate successful_runs / i.
C7_ProgressReports ==
    /\ reported = {k \in 1..(IF pc \in {"sleep2", "loop", "summary", "done"}
                             THEN i ELSE i - 1) : k % 5 = 0}
    /\ (stdout.kind = "progress" =>
          /\ pc = "sleep2" /\ i % 5 = 0 /\ i \in 1..num_iterations
          /\ stdout.completed = i
          /\ successful_runs + failed_runs = i
          /\ stdout.num = successful_runs /\ stdout.den = i
          /\ RateIs(stdout.tenths, successful_runs, i))

C7_Witness == stdout.kind = "progress" /\ i = 15 /\ stdout.num = 7 /\ stdout.tenths = 467

\* C8: at most one profile is provisioned, no Converse request is issued
\* before the provisioning call has returned, every request carries the ARN
\* that call returned, and shared_model_id never changes once assigned.
C8_SingleSharedProfile ==
    /\ [](createCalls <= 1 /\ Cardinality(profiles) <= 1)
    /\ [](pc \in {"main", "provision", "create"} => nRequests = 0)
    /\ [](nRequests > 0 =>
            /\ createCalls = 1
            /\ profiles = {shared_model_id}
            /\ modelIds = {shared_model_id}
            /\ request.modelId = shared_model_id)
    /\ [][shared_model_id # "unset" => shared_model_id' = shared_model_id]_vars
    /\ [](pc = "done" => nRequests = num_iterations)

C8_Witness == pc = "done" /\ shared_model_id \in Arns /\ modelIds = {shared_model_id}

\* C9: run_test has slept 1 unit once in every iteration whose call has
\* returned, whatever the outcome; main has slept 2 units once after every
\* classified iteration but the last; a complete run has slept
\* num_iterations times 1 unit and num_iterations - 1 times 2 units.
C9_TwoTierPacing ==
    /\ perCallSleeps = (IF pc \in {"run_test", "converse", "sleep1"} THEN i - 1 ELSE i)
    /\ loopSleeps = (IF InIteration \/ pc \in {"progress", "sleep2"} THEN i - 1
                     ELSE IF i = num_iterations THEN num_iterations - 1 ELSE i)
    /\ clock = perCallSleeps * 1 + loopSleeps * 2
    /\ (pc = "done" => perCallSleeps = num_iterations /\ loopSleeps = num_iterations - 1)

C9_Witness ==
    /\ pc = "done" /\ nReturned \in 1..(num_iterations - 1)
    /\ perCallSleeps = num_iterations /\ loopSleeps = num_iterations - 1

\* C10: requests are issued for iterations 1, 2, 3, ... in this order, one
\* at a time, each only after the previous iteration has been answered,
\* slept on, classified and followed by its inter-iteration sleep.
C10_SequentialIterations ==
    /\ [](inFlight \in {0, 1} /\ (inFlight = 1 <=> pc = "converse"))
    /\ [][i' # i => i' = i + 1]_vars
    /\ [][nRequests' # nRequests =>
            /\ nRequests' = nRequests + 1
            /\ request'.iteration = nRequests + 1
            /\ request'.iteration = i
            /\ inFlight = 0
            /\ successful_runs + failed_runs = nRequests
            /\ perCallSleeps = nRequests
            /\ loopSleeps = nRequests]_vars

C10_Witness == pc = "converse" /\ request.iteration = 3 /\ nRequests = 3 /\ loopSleeps = 2

\* C11: every iteration issues exactly one Converse request, also when it
\* fails: the number of requests is the number of iterations entered, each
\* new request is for a later iteration than the one before, and a run
\* that got past provisioning ends with num_iterations requests.
C11_NoRetries ==
    /\ [](nRequests = (IF pc = "run_test" THEN i - 1 ELSE i))
    /\ [](pc \in {"summary", "done"} => nRequests = num_iterations)
    /\ [][nRequests' # nRequests =>
            /\ nRequests' = nRequests + 1
            /\ request'.iteration > request.iteration]_vars

C11_Witness == pc = "sleep2" /\ i = 3 /\ failed_runs = 3 /\ nRequests = 3

\* The number of statements main still has to execute: 7 per iteration not
\* yet entered, those left of the current one, and the loop exit and summary.
StepsLeft ==
    CASE pc = "main"      -> 7 * num_iterations + 5
      [] pc = "provision" -> 7 * num_iterations + 4
      [] pc = "create"    -> 7 * num_iterations + 3
      [] pc = "loop"      -> 7 * (num_iterations - i) + 2
      [] pc = "run_test"  -> 7 * (num_iterations - i) + 8
      [] pc = "converse"  -> 7 * (num_iterations - i) + 7
      [] pc = "sleep1"    -> 7 * (num_iterations - i) + 6
      [] pc = "classify"  -> 7 * (num_iterations - i) + 5
      [] pc = "progress"  -> 7 * (num_iterations - i) + 4
      [] pc = "sleep2"    -> 7 * (num_iterations - i) + 3
      [] pc = "summary"   -> 1
      [] OTHER            -> 0

\* C12: once provisioning has succeeded the run cannot fail, cannot get
\* stuck and cannot loop: every state before "done" has a next statement to
\* execute, every statement executed brings the end strictly closer
\* (StepsLeft decreases and is never negative), whatever the outcomes of
\* the iterations; and in "done" the summary has been printed once with
\* the total and both counters.  main being one sequential thread whose
\* next statement is always executed, the run ends in "done".
C12_SummaryAlwaysReached ==
    /\ [][StepsLeft' < StepsLeft]_vars
    /\ [](StepsLeft >= 0 /\ (StepsLeft = 0 <=> pc \in {"done", "failed"}))
    /\ [](pc \notin {"done", "failed"} => ENABLED Next)
    /\ [][pc \notin {"main", "provision", "create"} => pc' # "failed"]_vars
    /\ [](pc = "done" =>
            /\ summaries = 1 /\ stdout.kind = "summary"
            /\ stdout.total = num_iterations
            /\ stdout.successful = successful_runs /\ stdout.failed = failed_runs
            /\ successful_runs + failed_runs = num_iterations)

C12_Witness ==
    /\ pc = "done" /\ summaries = 1 /\ stdout.kind = "summary"
    /\ stdout.successful = 0 /\ stdout.failed = num_iterations

\* C13: the request of iteration `index` carries one message, of role
\* "user", whose only text is entry index mod 4 (counted from 0) of the
\* fixed list of 4 distinct prompts; the selection has period 4.
C13_PromptSelection ==
    /\ Len(prompts) = 4
    /\ Cardinality({prompts[k] : k \in 1..Len(prompts)}) = 4
    /\ (nRequests > 0 =>
          /\ request.messages =
                <<[role |-> "user",
                   content |-> <<[text |-> prompts[(request.iteration % 4) + 1]]>>]>>
          /\ SelectPrompt(request.iteration) = SelectPrompt(request.iteration + Len(prompts))
          /\ \A k \in 1..request.iteration :
                (request.iteration - k) % 4 = 0 => SelectPrompt(k) = SelectPrompt(request.iteration))

C13_Witness ==
    /\ pc = "converse" /\ nRequests = 6
    /\ request.messages[1].content[1].text = prompts[3]

\* The orchestrator's phase at each position of main.
Phase ==
    CASE pc = "main"                     -> "INIT"
      [] pc \in {"provision", "create"}  -> "PROVISIONING"
      [] pc = "summary"                  -> "SUMMARIZING"
      [] pc = "done"                     -> "DONE"
      [] pc = "failed"                   -> "FAILED"
      [] OTHER                           -> "RUNNING"

PhaseEdges ==
    {<<"INIT", "PROVISIONING">>, <<"PROVISIONING", "RUNNING">>,
     <<"PROVISIONING", "FAILED">>, <<"RUNNING", "SUMMARIZING">>,
     <<"SUMMARIZING", "DONE">>}

\* C14: a step keeps the phase or follows INIT -> PROVISIONING -> RUNNING
\* -> SUMMARIZING -> DONE or PROVISIONING -> FAILED (so no phase is entered
\* again and FAILED is entered from PROVISIONING only); the summary is
\* printed at most once, on entering DONE, and SUMMARIZING is entered only
\* when all num_iterations iterations have been classified.
C14_PhaseOrder ==
    /\ [][Phase' = Phase \/ <<Phase, Phase'>> \in PhaseEdges]_vars
    /\ [](summaries \in {0, 1} /\ (summaries = 1 <=> Phase = "DONE"))
    /\ [](Phase \in {"SUMMARIZING", "DONE"} =>
            i = num_iterations /\ successful_runs + failed_runs = num_iterations)
    /\ [][summaries' # summaries => Phase = "SUMMARIZING" /\ Phase' = "DONE"]_vars

C14_Witness == Phase = "SUMMARIZING" /\ summaries = 0 /\ failed_runs = 1

\* the first element of the content that has a 'text' field
FirstWithText(resp) ==
    CHOOSE k \in 1..Len(ContentOf(resp)) :
        /\ "text" \in DOMAIN ContentOf(resp)[k].v
        /\ \A j \in 1..(k - 1) : "text" \notin DOMAIN ContentOf(resp)[j].v
FirstTextOf(resp) == ContentOf(resp)[FirstWithText(resp)].v.text

\* C15 as stated: on a response with the expected nesting,
\* parse_converse_response returns the 'text' of the first content element
\* that has one, and returns the sentinel if and only if no element has a
\* 'text' field.
C15_SentinelIffNoText ==
    (remote.kind = "returned" /\ ExpectedNesting(remote.resp)) =>
        /\ ~parse_converse_response(remote.resp).raised
        /\ (HasTextField(remote.resp) =>
              parse_converse_response(remote.resp).value = FirstTextOf(remote.resp))
        /\ (parse_converse_response(remote.resp).value = Sentinel
              <=> ~HasTextField(remote.resp))

\* C15 as amended: on a response with the expected nesting,
\* parse_converse_response returns the 'text' of the first content element
\* that has one, and the sentinel when no element has a 'text' field; the
\* value returned is the sentinel exactly when no element has a 'text'
\* field or the first 'text' is itself the sentinel string.
C15_FirstTextOrSentinel ==
    (remote.kind = "returned" /\ ExpectedNesting(remote.resp)) =>
        /\ ~parse_converse_response(remote.resp).raised
        /\ (HasTextField(remote.resp) =>
              parse_converse_response(remote.resp).value = FirstTextOf(remote.resp))
        /\ (~HasTextField(remote.resp) =>
              parse_converse_response(remote.resp).value = Sentinel)
        /\ (parse_converse_response(remote.resp).value = Sentinel
              <=> (~HasTextField(remote.resp) \/ FirstTextOf(remote.resp) = Sentinel))

C15_Witness ==
    /\ remote = Returned(R_imageText)
    /\ stdout.kind = "preview" /\ stdout.text = Hi

\* C16: the classification step of an iteration adds 1 to exactly one of
\* successful_runs and failed_runs and leaves the other alone; no other
\* step changes either counter; shared_model_id does not change once the
\* loop has been reached (num_iterations is a constant of the program); the
\* counters never decrease and never exceed the number of iterations
\* classified.
C16_CounterFrame ==
    /\ [][pc = "classify" =>
            \/ successful_runs' = successful_runs + 1 /\ failed_runs' = failed_runs
            \/ failed_runs' = failed_runs + 1 /\ successful_runs' = successful_runs]_vars
    /\ [][pc # "classify" =>
            successful_runs' = successful_runs /\ failed_runs' = failed_runs]_vars
    /\ [][(InIteration \/ Classified) => shared_model_id' = shared_model_id]_vars
    /\ [][successful_runs' >= successful_runs /\ failed_runs' >= failed_runs]_vars
    /\ [](/\ successful_runs \in 0..(IF InIteration THEN i - 1 ELSE i)
          /\ failed_runs \in 0..(IF InIteration THEN i - 1 ELSE i))

C16_Witness == pc = "progress" /\ i = 2 /\ successful_runs = 1 /\ failed_runs = 1

====
